---- MODULE Spec2Model ----
(***************************************************************************)
(* A model of the BenchBot client (benchbot_api/benchbot.py): the startup  *)
(* handshake, the action validation, the step executor, the `actions`      *)
(* property and the episode run loop, against a supervisor service whose   *)
(* flags and configuration may change at any time and whose requests may   *)
(* fail.  Every blocking request of the client is one step of the model.   *)
(* The service's flags and its action list are state; its robot            *)
(* configuration, its observation list and the raw observations are        *)
(* whatever it answers when asked, and so are the agent's answers.         *)
(***************************************************************************)
EXTENDS Integers, Sequences, FiniteSets, TLC

VARIABLES
    is_running,            \* service: simulator/is_running
    is_collided,           \* service: simulator/is_collided
    is_finished,           \* service: status/is_finished
    is_dirty,              \* service: simulator/is_dirty
    declared_actions,      \* service: config/actions, a list of action names
    connection_callbacks,  \* BenchBot._connection_callbacks
    pc,                    \* the request the client is about to issue ("idle": none)
    stack,                 \* the methods in progress, outermost first
    loc,                   \* the locals of step and of the actions property
    run,                   \* the locals of run and what it asked of the agent
    ret,                   \* how the last outermost call ended
    log,                   \* the requests issued by the current (or last) outermost call
    answered,              \* how the last of these requests ended ("ok" before the first)
    stable                 \* no service change since the current outermost call began

svcVars == <<is_running, is_collided, is_finished, is_dirty, declared_actions>>
vars == <<is_running, is_collided, is_finished, is_dirty, declared_actions,
          connection_callbacks, pc, stack, loc, run, ret, log, answered, stable>>

(***************************************************************************)
(* Bounds of the model.                                                    *)
(***************************************************************************)
\* the failed is_running polls one start() may issue
MaxPolls == 2
\* the steps one run() may take after the initial one
MaxSteps == 2
\* the raw observation values the service may answer with: 1..MaxRaw
MaxRaw == 2

(***************************************************************************)
(* Values.                                                                 *)
(***************************************************************************)
\* Python's None, where a string is expected
None == "None"

SUCCESS == "SUCCESS"
FINISHED == "FINISHED"
COLLISION == "COLLISION"
ActionResult == {SUCCESS, FINISHED, COLLISION}

\* route types
CONNECTION == "CONNECTION"
CONFIG == "CONFIG"
SIMULATOR == "SIMULATOR"
STATUS == "STATUS"
EXPLICIT == "EXPLICIT"

supervisor_address == "http://benchbot_supervisor:10000/"

\* step's table of actions and their argument names
VALID_ACTIONS ==
    [a \in {"move_next", "move_distance", "move_angle"} |->
        CASE a = "move_next" -> <<>>
          [] a = "move_distance" -> <<"distance">>
          [] a = "move_angle" -> <<"angle">>]

Range(s) == {s[i] : i \in DOMAIN s}

\* the connection names of the service
Keys == {"k1", "k2"}
\* connection data: a mapping that may have a 'callback_api' entry, a dotted
\* path given here by its components
ConnectionData ==
    {[f \in {} |-> <<>>], [f \in {"callback_api"} |-> <<"api_callbacks", "convert">>]}
\* the answers to config/robot, config/observations and config/actions
RobotConfigs == UNION {[D -> ConnectionData] : D \in SUBSET Keys}
ObservationLists == {<<>>, <<"k1">>, <<"k2", "k1">>}
ActionLists == {<<"move_next">>, <<"move_next", "move_distance", "move_angle">>}
RawValues == 1..MaxRaw

\* what a caller may pass to step: an action (or None) and keyword argument names
ActionInputs == {None, "move_next", "move_distance", "move_angle", "turn", "move_forward"}
ArgNames == {"distance", "angle"}
KwargInputs == SUBSET ArgNames

\* how a request may end: answered with a status < 300, not answered at all,
\* or answered with a status >= 300
Outcomes == {"ok", "unreachable", "status"}

\* an exception: its class and the parts of its message
NoError == [type |-> "none", msg |-> <<>>]
Error(t, m) == [type |-> t, msg |-> m]

Request(fn, route_type, route_name) ==
    [fn |-> fn, route_type |-> route_type, route_name |-> route_name]

(***************************************************************************)
(* The transport: _receive and _send.                                      *)
(***************************************************************************)
\* what the body of the try block raises for an outcome of requests.get
TryBlockRaises(outcome) ==
    CASE outcome = "unreachable" -> Error("ConnectionError", <<"requests.get">>)
      [] outcome = "status" ->
            Error("_UnexpectedResponseError",
                  <<"Received an unexpected response from BenchBot supervisor",
                    "HTTP status code">>)
      [] OTHER -> NoError

\* a _receive that swallows what the try block raised
ReceiveError_Swallowed(outcome) == NoError

\* _receive: a bare except turns whatever the try block raised into ConnectionError
ReceiveError(outcome) ==
    IF TryBlockRaises(outcome) # NoError
    THEN Error("ConnectionError",
               <<"Failed to establish a connection to BenchBot supervisor">>)
    ELSE NoError

\* _send: the same, with the input data in the message
SendError(outcome, route_name, route_type) ==
    IF TryBlockRaises(outcome) # NoError
    THEN Error("ConnectionError",
               <<"Failed to establish a connection to BenchBot supervisor with input data",
                 route_name, route_type>>)
    ELSE NoError

\* a ProbeError that lets the exception of _receive through as it is
ProbeError_Unnamed(e) == e

\* start: the probe's ConnectionError is raised again, naming the address
ProbeError(e) ==
    IF e.type = "ConnectionError"
    THEN Error(e.type, <<"Could not find a BenchBot supervisor @", supervisor_address,
                         "Are you sure it is available?">>)
    ELSE e

(***************************************************************************)
(* step: the validation of the action and its keyword arguments.           *)
(***************************************************************************)
TypeOf(v) == IF v = None THEN "NoneType" ELSE "str"

\* a chain of + over operands of the given types: a str can only be
\* concatenated with a str
Concatenates(types) == \A i \in DOMAIN types : types[i] = "str"

\* the exception raise RuntimeError(<concatenation>) ends with: the
\* RuntimeError, or the TypeError of a + whose operands have these types
RaiseRuntimeError(types, msg) ==
    IF Concatenates(types)
    THEN Error("RuntimeError", msg)
    ELSE Error("TypeError", <<"+">> \o types)

\* a Validate without its first check: the table lookup fails instead
Validate_NoActionCheck(action, action_kwargs) ==
    IF action \notin DOMAIN VALID_ACTIONS
    THEN Error("KeyError", <<action>>)
    ELSE IF Cardinality(action_kwargs) # Len(VALID_ACTIONS[action])
    THEN RaiseRuntimeError(<<TypeOf(action), "str", "int", "str", "int">>,
                           <<action, "requires", "arguments. You supplied">>)
    ELSE IF \E arg_name \in action_kwargs : arg_name \notin Range(VALID_ACTIONS[action])
    THEN RaiseRuntimeError(<<"str", TypeOf(action), "str", "str", "str", "str">>,
                           <<"Valid arguments to", action, "are",
                             "The following arguments are invalid">>)
    ELSE NoError

\* a Validate without its last check: the argument names go unchecked
Validate_NoNameCheck(action, action_kwargs) ==
    IF action \notin DOMAIN VALID_ACTIONS
    THEN RaiseRuntimeError(<<TypeOf(action), "str", "str">>,
                           <<action, "not a valid action. Valid actions are",
                             "move_next", "move_distance", "move_angle">>)
    ELSE IF Cardinality(action_kwargs) # Len(VALID_ACTIONS[action])
    THEN RaiseRuntimeError(<<TypeOf(action), "str", "int", "str", "int">>,
                           <<action, "requires", "arguments. You supplied">>)
    ELSE NoError

Validate(action, action_kwargs) ==
    IF action \notin DOMAIN VALID_ACTIONS
    THEN RaiseRuntimeError(<<TypeOf(action), "str", "str">>,
                           <<action, "not a valid action. Valid actions are",
                             "move_next", "move_distance", "move_angle">>)
    ELSE IF Cardinality(action_kwargs) # Len(VALID_ACTIONS[action])
    THEN RaiseRuntimeError(<<TypeOf(action), "str", "int", "str", "int">>,
                           <<action, "requires", "arguments. You supplied">>)
    ELSE IF \E arg_name \in action_kwargs : arg_name \notin Range(VALID_ACTIONS[action])
    THEN RaiseRuntimeError(<<"str", TypeOf(action), "str", "str", "str", "str">>,
                           <<"Valid arguments to", action, "are",
                             "The following arguments are invalid">>)
    ELSE NoError

\* step sends the action unless it is None
SendsAction(action) == action # None

\* step: action_result after the answer to is_collided, and whether the elif
\* branch goes on to ask is_finished
\* an AfterIsCollided whose second test is an if, not an elif
AfterIsCollided_NoElif(collided) ==
    IF collided
    THEN [action_result |-> COLLISION, asks_finished |-> TRUE]
    ELSE [action_result |-> SUCCESS, asks_finished |-> TRUE]

\* an AfterIsCollided that never goes on to ask is_finished
AfterIsCollided_NeverAsks(collided) ==
    IF collided
    THEN [action_result |-> COLLISION, asks_finished |-> FALSE]
    ELSE [action_result |-> SUCCESS, asks_finished |-> FALSE]

AfterIsCollided(collided) ==
    IF collided
    THEN [action_result |-> COLLISION, asks_finished |-> FALSE]
    ELSE [action_result |-> SUCCESS, asks_finished |-> TRUE]

\* step: action_result after the answer to is_finished
AfterIsFinished(action_result, finished) ==
    IF finished THEN FINISHED ELSE action_result

(***************************************************************************)
(* The actions property:                                                   *)
(*   [] if is_collided or is_finished else actions                         *)
(* `or` asks is_finished only when is_collided was false, and the list is  *)
(* asked for only when both were.                                          *)
(***************************************************************************)
ActionsAfterIsCollided(collided) == IF collided THEN "empty" ELSE "is_finished"
\* an ActionsAfterIsFinished that tests is_collided only
ActionsAfterIsFinished_Ignored(finished) == "actions"

ActionsAfterIsFinished(finished) == IF finished THEN "empty" ELSE "actions"

(***************************************************************************)
(* The connection callbacks.                                               *)
(***************************************************************************)
\* _attempt_connection_imports: the attribute the dotted path ends with, or None
AttemptConnectionImports(connection_data) ==
    IF "callback_api" \in DOMAIN connection_data
    THEN connection_data["callback_api"][Len(connection_data["callback_api"])]
    ELSE None

\* start: one entry per connection of the robot configuration
ImportCallbacks(config) == [k \in DOMAIN config |-> AttemptConnectionImports(config[k])]

\* a callback of api_callbacks applied to a raw value
CallCallback(callback, v) == 0 - v

\* step's last expression: the first key (in the order fetched) that has no
\* entry raises KeyError
MissingKeys(callbacks, keys) == {i \in DOMAIN keys : keys[i] \notin DOMAIN callbacks}
FirstMissing(callbacks, keys) ==
    keys[CHOOSE i \in MissingKeys(callbacks, keys) :
            \A j \in MissingKeys(callbacks, keys) : i <= j]
TransformError(callbacks, keys) ==
    IF MissingKeys(callbacks, keys) # {}
    THEN Error("KeyError", <<FirstMissing(callbacks, keys)>>)
    ELSE NoError
Transform(callbacks, raw_os) ==
    [k \in DOMAIN raw_os |->
        IF callbacks[k] # None THEN CallCallback(callbacks[k], raw_os[k]) ELSE raw_os[k]]

(***************************************************************************)
(* The control state of the client (with the log of the requests issued),  *)
(* and how calls enter and leave methods.                                  *)
(* No method catches an exception of a method it calls (but start, around  *)
(* its probe), so a raise ends the outermost call.                         *)
(***************************************************************************)
NoLoc == [action |-> None, action_kwargs |-> {}, action_result |-> SUCCESS,
          keys |-> <<>>, raw_os |-> <<>>, robot |-> <<>>]
NoRun == [observations |-> <<>>, action_result |-> SUCCESS, is_done |-> FALSE,
          steps |-> 0, picks |-> 0, saves |-> 0, picked_observations |-> <<>>,
          picked_actions |-> <<>>]
NoRet == [op |-> "none", frame |-> "none", status |-> "none", error |-> NoError,
          observations |-> <<>>, action_result |-> SUCCESS, actions |-> <<>>,
          observation_list |-> <<>>]

Ctl == [pc |-> pc, stack |-> stack, loc |-> loc, run |-> run, ret |-> ret,
        log |-> log, answered |-> answered]
SetCtl(c) ==
    /\ pc' = c.pc
    /\ log' = c.log
    /\ answered' = c.answered
    /\ stack' = c.stack
    /\ loc' = c.loc
    /\ run' = c.run
    /\ ret' = c.ret

\* the frame on top of the stack raises
Raised(c, err) ==
    [c EXCEPT !.pc = "idle", !.stack = <<>>,
              !.ret = [NoRet EXCEPT !.op = c.stack[1],
                                    !.frame = c.stack[Len(c.stack)],
                                    !.status = "raise", !.error = err]]

\* the outermost call returns
Returned(c, r) ==
    [c EXCEPT !.pc = "idle", !.stack = <<>>,
              !.ret = [r EXCEPT !.op = c.stack[1], !.frame = c.stack[1],
                                !.status = "return"]]

\* an EnterStep that sends the action before it validates it
EnterStep_SendsFirst(c, action, action_kwargs) ==
    LET c1 == [c EXCEPT !.stack = Append(c.stack, "step"),
                        !.loc = [NoLoc EXCEPT !.action = action,
                                              !.action_kwargs = action_kwargs],
                        !.log = Append(c.log, Request("_send", CONNECTION, action))]
    IN  IF Validate(action, action_kwargs) # NoError
        THEN Raised(c1, Validate(action, action_kwargs))
        ELSE [c1 EXCEPT !.pc = "step_is_collided"]

\* step(action, **action_kwargs) is called: it runs up to its first request
EnterStep(c, action, action_kwargs) ==
    LET c1 == [c EXCEPT !.stack = Append(c.stack, "step"),
                        !.loc = [NoLoc EXCEPT !.action = action,
                                              !.action_kwargs = action_kwargs]]
    IN  IF Validate(action, action_kwargs) # NoError
        THEN Raised(c1, Validate(action, action_kwargs))
        ELSE IF SendsAction(action)
        THEN [c1 EXCEPT !.pc = "step_send"]
        ELSE [c1 EXCEPT !.pc = "step_is_collided"]

\* the actions property is read
EnterActions(c) ==
    [c EXCEPT !.stack = Append(c.stack, "actions"), !.pc = "actions_is_collided"]

\* run has (observations, action_result): the head of its while loop, where
\* the agent answers is_done(action_result); when it is done, save_result is
\* called and run returns.  The result is the set of control states run may
\* go to.
RunLoop(c, observations, action_result) ==
    LET c1 == [c EXCEPT !.run.observations = observations,
                        !.run.action_result = action_result]
    IN  {IF is_done
         THEN Returned([c1 EXCEPT !.run.is_done = TRUE,
                                  !.run.saves = c.run.saves + 1], NoRet)
         ELSE EnterActions([c1 EXCEPT !.run.is_done = FALSE]) :
            is_done \in BOOLEAN}

\* the actions property returns a list, to run (which then asks the agent for
\* an action and calls step) or to the caller
ActionsReturns(c, actions) ==
    LET c1 == [c EXCEPT !.stack = SubSeq(c.stack, 1, Len(c.stack) - 1)]
    IN  IF c1.stack = <<>>
        THEN {Returned(c, [NoRet EXCEPT !.actions = actions])}
        ELSE {EnterStep([c1 EXCEPT !.run.picks = c.run.picks + 1,
                                   !.run.steps = c.run.steps + 1,
                                   !.run.picked_observations = c.run.observations,
                                   !.run.picked_actions = actions],
                        action, action_kwargs) :
                  action \in IF c.run.steps < MaxSteps THEN ActionInputs ELSE {},
                  action_kwargs \in KwargInputs}

\* step returns (observations, action_result): to run, to reset (which
\* returns it to its own caller), or to the caller
StepReturns(c, observations, action_result) ==
    LET c1 == [c EXCEPT !.stack = SubSeq(c.stack, 1, Len(c.stack) - 1)]
        c2 == IF c1.stack # <<>> /\ c1.stack[Len(c1.stack)] = "reset"
              THEN [c1 EXCEPT !.stack = SubSeq(c1.stack, 1, Len(c1.stack) - 1)]
              ELSE c1
    IN  IF c2.stack = <<>>
        THEN {Returned(c, [NoRet EXCEPT !.observations = observations,
                                       !.action_result = action_result])}
        ELSE RunLoop(c2, observations, action_result)

\* step has fetched every observation: its return expression
FinishStep(c) ==
    IF TransformError(connection_callbacks, c.loc.keys) # NoError
    THEN {Raised(c, TransformError(connection_callbacks, c.loc.keys))}
    ELSE StepReturns(c, Transform(connection_callbacks, c.loc.raw_os),
                     c.loc.action_result)

(***************************************************************************)
(* The initial state: a BenchBot constructed with auto_start=False, and a  *)
(* service with any flags and either action list.                         *)
(***************************************************************************)
Init ==
    /\ is_running \in BOOLEAN
    /\ is_collided \in BOOLEAN
    /\ is_finished \in BOOLEAN
    /\ is_dirty \in BOOLEAN
    /\ declared_actions \in ActionLists
    /\ connection_callbacks = <<>>
    /\ pc = "idle"
    /\ stack = <<>>
    /\ loc = NoLoc
    /\ run = NoRun
    /\ ret = NoRet
    /\ log = <<>>
    /\ answered = "ok"
    /\ stable = TRUE

\* the service changes a flag, at any time
ServiceChange ==
    /\ \E flags \in [{"is_running", "is_collided", "is_finished", "is_dirty"} -> BOOLEAN] :
          /\ Cardinality({f \in DOMAIN flags : flags[f]}) = 1
          /\ is_running' = (is_running # flags["is_running"])
          /\ is_collided' = (is_collided # flags["is_collided"])
          /\ is_finished' = (is_finished # flags["is_finished"])
          /\ is_dirty' = (is_dirty # flags["is_dirty"])
    /\ stable' = FALSE
    /\ UNCHANGED <<declared_actions, connection_callbacks, pc, stack, loc, run,
                   ret, log, answered>>

\* a call from outside begins: nothing requested yet
Begin(op) ==
    [pc |-> "idle", stack |-> <<op>>, loc |-> NoLoc, run |-> NoRun, ret |-> NoRet,
     log |-> <<>>, answered |-> "ok"]

\* the control state once a request has been issued
Sent(request) == [Ctl EXCEPT !.log = Append(log, request)]
\* and once it has ended with an outcome
Answered(c, outcome) == [c EXCEPT !.answered = outcome]

\* what a request leaves alone
Frame == UNCHANGED <<svcVars, stable>>

(***************************************************************************)
(* step                                                                    *)
(***************************************************************************)
CallStep ==
    /\ pc = "idle"
    /\ \E action \in ActionInputs, action_kwargs \in KwargInputs :
          SetCtl(EnterStep([Begin("step") EXCEPT !.stack = <<>>], action, action_kwargs))
    /\ stable' = TRUE
    /\ UNCHANGED <<svcVars, connection_callbacks>>

StepSend ==
    /\ pc = "step_send"
    /\ \E outcome \in Outcomes :
       LET sent == Answered(Sent(Request("_send", CONNECTION, loc.action)), outcome)
       IN  SetCtl(IF SendError(outcome, loc.action, CONNECTION) # NoError
                  THEN Raised(sent, SendError(outcome, loc.action, CONNECTION))
                  ELSE [sent EXCEPT !.pc = "step_is_collided"])
    /\ UNCHANGED connection_callbacks
    /\ Frame

StepIsCollided ==
    /\ pc = "step_is_collided"
    /\ \E outcome \in Outcomes :
       LET sent == Answered(Sent(Request("_receive", SIMULATOR, "is_collided")), outcome)
       IN  SetCtl(IF ReceiveError(outcome) # NoError
                  THEN Raised(sent, ReceiveError(outcome))
                  ELSE [sent EXCEPT
                          !.loc.action_result = AfterIsCollided(is_collided).action_result,
                          !.pc = IF AfterIsCollided(is_collided).asks_finished
                                 THEN "step_is_finished" ELSE "step_observations"])
    /\ UNCHANGED connection_callbacks
    /\ Frame

StepIsFinished ==
    /\ pc = "step_is_finished"
    /\ \E outcome \in Outcomes :
       LET sent == Answered(Sent(Request("_receive", STATUS, "is_finished")), outcome)
       IN  SetCtl(IF ReceiveError(outcome) # NoError
                  THEN Raised(sent, ReceiveError(outcome))
                  ELSE [sent EXCEPT
                          !.loc.action_result =
                              AfterIsFinished(loc.action_result, is_finished),
                          !.pc = "step_observations"])
    /\ UNCHANGED connection_callbacks
    /\ Frame

\* the observations property, read by step
StepObservations ==
    /\ pc = "step_observations"
    /\ \E outcome \in Outcomes :
       LET sent == Answered(Sent(Request("_receive", CONFIG, "observations")), outcome)
       IN  IF ReceiveError(outcome) # NoError
           THEN SetCtl(Raised(sent, ReceiveError(outcome)))
           ELSE \E observations \in ObservationLists :
                  LET c == [sent EXCEPT !.loc.keys = observations,
                                       !.pc = "step_observation"]
                  IN  IF observations = <<>>
                      THEN \E n \in FinishStep(c) : SetCtl(n)
                      ELSE SetCtl(c)
    /\ UNCHANGED connection_callbacks
    /\ Frame

\* one observation is fetched: the next key of the list
StepObservation ==
    /\ pc = "step_observation"
    /\ LET o == loc.keys[Cardinality(DOMAIN loc.raw_os) + 1]
       IN  \E outcome \in Outcomes :
           LET sent == Answered(Sent(Request("_receive", CONNECTION, o)), outcome)
           IN  IF ReceiveError(outcome) # NoError
               THEN SetCtl(Raised(sent, ReceiveError(outcome)))
               ELSE \E v \in RawValues :
                      LET c == [sent EXCEPT !.loc.raw_os =
                                   [k \in DOMAIN loc.raw_os \cup {o} |->
                                       IF k = o THEN v ELSE loc.raw_os[k]]]
                      IN  IF Cardinality(DOMAIN c.loc.raw_os) = Len(loc.keys)
                          THEN \E n \in FinishStep(c) : SetCtl(n)
                          ELSE SetCtl(c)
    /\ UNCHANGED connection_callbacks
    /\ Frame

(***************************************************************************)
(* The actions property                                                    *)
(***************************************************************************)
CallActions ==
    /\ pc = "idle"
    /\ SetCtl(EnterActions([Begin("actions") EXCEPT !.stack = <<>>]))
    /\ stable' = TRUE
    /\ UNCHANGED <<svcVars, connection_callbacks>>

ActionsIsCollided ==
    /\ pc = "actions_is_collided"
    /\ \E outcome \in Outcomes :
       LET sent == Answered(Sent(Request("_receive", SIMULATOR, "is_collided")), outcome)
       IN  IF ReceiveError(outcome) # NoError
           THEN SetCtl(Raised(sent, ReceiveError(outcome)))
           ELSE IF ActionsAfterIsCollided(is_collided) = "empty"
           THEN \E n \in ActionsReturns(sent, <<>>) : SetCtl(n)
           ELSE SetCtl([sent EXCEPT !.pc = "actions_is_finished"])
    /\ UNCHANGED connection_callbacks
    /\ Frame

ActionsIsFinished ==
    /\ pc = "actions_is_finished"
    /\ \E outcome \in Outcomes :
       LET sent == Answered(Sent(Request("_receive", STATUS, "is_finished")), outcome)
       IN  IF ReceiveError(outcome) # NoError
           THEN SetCtl(Raised(sent, ReceiveError(outcome)))
           ELSE IF ActionsAfterIsFinished(is_finished) = "empty"
           THEN \E n \in ActionsReturns(sent, <<>>) : SetCtl(n)
           ELSE SetCtl([sent EXCEPT !.pc = "actions_list"])
    /\ UNCHANGED connection_callbacks
    /\ Frame

ActionsList ==
    /\ pc = "actions_list"
    /\ \E outcome \in Outcomes :
       LET sent == Answered(Sent(Request("_receive", CONFIG, "actions")), outcome)
       IN  IF ReceiveError(outcome) # NoError
           THEN SetCtl(Raised(sent, ReceiveError(outcome)))
           ELSE \E n \in ActionsReturns(sent, declared_actions) : SetCtl(n)
    /\ UNCHANGED connection_callbacks
    /\ Frame

(***************************************************************************)
(* The observations property, read by the caller                           *)
(***************************************************************************)
CallObservations ==
    /\ pc = "idle"
    /\ SetCtl([Begin("observations") EXCEPT !.pc = "observations_list"])
    /\ stable' = TRUE
    /\ UNCHANGED <<svcVars, connection_callbacks>>

ObservationsList ==
    /\ pc = "observations_list"
    /\ \E outcome \in Outcomes :
       LET sent == Answered(Sent(Request("_receive", CONFIG, "observations")), outcome)
       IN  IF ReceiveError(outcome) # NoError
           THEN SetCtl(Raised(sent, ReceiveError(outcome)))
           ELSE \E observations \in ObservationLists :
                  SetCtl(Returned(sent, [NoRet EXCEPT !.observation_list = observations]))
    /\ UNCHANGED connection_callbacks
    /\ Frame

(***************************************************************************)
(* reset, and run, which begins with it                                    *)
(***************************************************************************)
\* a reset that empties the registry
CallReset_ClearsRegistry ==
    /\ pc = "idle"
    /\ SetCtl([Begin("reset") EXCEPT !.pc = "reset_is_dirty"])
    /\ stable' = TRUE
    /\ connection_callbacks' = <<>>
    /\ UNCHANGED svcVars

CallReset ==
    /\ pc = "idle"
    /\ SetCtl([Begin("reset") EXCEPT !.pc = "reset_is_dirty"])
    /\ stable' = TRUE
    /\ UNCHANGED <<svcVars, connection_callbacks>>

CallRun ==
    /\ pc = "idle"
    /\ SetCtl([Begin("run") EXCEPT !.stack = <<"run", "reset">>,
                                   !.pc = "reset_is_dirty"])
    /\ stable' = TRUE
    /\ UNCHANGED <<svcVars, connection_callbacks>>

\* a reset that restarts the simulator whatever is_dirty says
RestartsWhen_Always(dirty) == TRUE

\* reset: `if self._receive("is_dirty", ...)` guards the restart request
RestartsWhen(dirty) == dirty

ResetIsDirty ==
    /\ pc = "reset_is_dirty"
    /\ \E outcome \in Outcomes :
       LET sent == Answered(Sent(Request("_receive", SIMULATOR, "is_dirty")), outcome)
       IN  SetCtl(IF ReceiveError(outcome) # NoError
                  THEN Raised(sent, ReceiveError(outcome))
                  ELSE IF RestartsWhen(is_dirty)
                  THEN [sent EXCEPT !.pc = "reset_restart"]
                  ELSE EnterStep(sent, None, {}))
    /\ UNCHANGED connection_callbacks
    /\ Frame

ResetRestart ==
    /\ pc = "reset_restart"
    /\ \E outcome \in Outcomes :
       LET sent == Answered(Sent(Request("_receive", SIMULATOR, "restart")), outcome)
       IN  SetCtl(IF ReceiveError(outcome) # NoError
                  THEN Raised(sent, ReceiveError(outcome))
                  ELSE EnterStep(sent, None, {}))
    /\ UNCHANGED connection_callbacks
    /\ Frame

(***************************************************************************)
(* start                                                                   *)
(***************************************************************************)
\* the is_running polls start has issued
Polls == Cardinality({i \in DOMAIN log : log[i].route_name = "is_running"})

CallStart ==
    /\ pc = "idle"
    /\ SetCtl([Begin("start") EXCEPT !.pc = "start_probe"])
    /\ stable' = TRUE
    /\ UNCHANGED <<svcVars, connection_callbacks>>

StartProbe ==
    /\ pc = "start_probe"
    /\ \E outcome \in Outcomes :
       LET sent == Answered(Sent(Request("_receive", EXPLICIT, "/")), outcome)
       IN  SetCtl(IF ReceiveError(outcome) # NoError
                  THEN Raised(sent, ProbeError(ReceiveError(outcome)))
                  ELSE [sent EXCEPT !.pc = "start_is_running"])
    /\ UNCHANGED connection_callbacks
    /\ Frame

\* one poll of the while loop; after a false answer start sleeps and polls again
\* start's loop condition: a poll that proceeds whatever the flag says
PollAgain_Never(running) == FALSE

\* start's loop condition, `while not self._receive("is_running", ...)`
PollAgain(running) == ~running

StartIsRunning ==
    /\ pc = "start_is_running"
    /\ is_running \/ Polls < MaxPolls
    /\ \E outcome \in Outcomes :
       LET sent == Answered(Sent(Request("_receive", SIMULATOR, "is_running")), outcome)
       IN  SetCtl(IF ReceiveError(outcome) # NoError
                  THEN Raised(sent, ReceiveError(outcome))
                  ELSE IF PollAgain(is_running)
                  THEN sent
                  ELSE [sent EXCEPT !.pc = "start_robot"])
    /\ UNCHANGED connection_callbacks
    /\ Frame

StartRobot ==
    /\ pc = "start_robot"
    /\ \E outcome \in Outcomes :
       LET sent == Answered(Sent(Request("_receive", CONFIG, "robot")), outcome)
       IN  IF ReceiveError(outcome) # NoError
           THEN /\ SetCtl(Raised(sent, ReceiveError(outcome)))
                /\ UNCHANGED connection_callbacks
           ELSE \E config \in RobotConfigs :
                  /\ connection_callbacks' = ImportCallbacks(config)
                  /\ SetCtl(Returned([sent EXCEPT !.loc.robot = config], NoRet))
    /\ Frame

Next ==
    \/ ServiceChange
    \/ CallStart
    \/ StartProbe
    \/ StartIsRunning
    \/ StartRobot
    \/ CallReset
    \/ CallRun
    \/ ResetIsDirty
    \/ ResetRestart
    \/ CallStep
    \/ StepSend
    \/ StepIsCollided
    \/ StepIsFinished
    \/ StepObservations
    \/ StepObservation
    \/ CallActions
    \/ ActionsIsCollided
    \/ ActionsIsFinished
    \/ ActionsList
    \/ CallObservations
    \/ ObservationsList

Spec == Init /\ [][Next]_vars

\* start is one thread that runs its requests one after the other (the poll
\* loop only sleeps 0.1 s between two polls): a request of start that stays
\* possible is eventually issued
LiveSpec == Spec /\ WF_vars(StartProbe) /\ WF_vars(StartIsRunning) /\ WF_vars(StartRobot)

(***************************************************************************)
(* Properties.                                                             *)
(***************************************************************************)
\* the last outermost call was op and it has ended
Ended(op) == pc = "idle" /\ ret.op = op /\ ret.status # "none"
\* the last call ended in step's validation: an error step raises before any
\* request of its own
ValidationErrors == {"RuntimeError", "TypeError"}
FailedValidation ==
    /\ pc = "idle"
    /\ ret.status = "raise"
    /\ ret.frame = "step"
    /\ ret.error.type \in ValidationErrors
\* the last call ended because a request failed
FailedRequest == pc = "idle" /\ ret.status = "raise" /\ ret.error.type = "ConnectionError"
\* the requests of the log that are not reads of the configuration
NotConfig(request) == request.route_type # CONFIG
\* the fetches of the given observation keys, in order
Fetches(keys) == [i \in DOMAIN keys |-> Request("_receive", CONNECTION, keys[i])]
\* what the flags of the service say the result of a step is
FlagsResult ==
    IF is_collided THEN COLLISION ELSE IF is_finished THEN FINISHED ELSE SUCCESS

\* C1: a step whose action is None (as reset's is) fails no validation: it
\* raises neither RuntimeError nor TypeError, and it sends no action.
C1_NullActionBypassesValidation ==
    (loc.action = None /\ "step" \in Range(stack) \cup {ret.frame}) =>
        /\ ~FailedValidation
        /\ \A i \in DOMAIN log : log[i].fn # "_send"

\* C2: once step has derived its result, with the flags of the service as
\* they were when it asked, the result is COLLISION if is_collided (whatever
\* is_finished), else FINISHED if is_finished, else SUCCESS; it is the result
\* step returns.
C2_Derived ==
    \/ pc \in {"step_observations", "step_observation"}
    \/ Ended("step") /\ ret.status = "return"
    \/ Ended("step") /\ ret.error.type = "KeyError"
C2_ResultDerivation ==
    /\ C2_Derived => loc.action_result \in ActionResult
    /\ (C2_Derived /\ stable) => loc.action_result = FlagsResult
    /\ (Ended("step") /\ ret.status = "return") => ret.action_result = loc.action_result
C2_Witness ==
    /\ Ended("step") /\ ret.status = "return" /\ stable
    /\ is_collided /\ is_finished
    /\ ret.action_result = COLLISION

\* C3: step with an action name that is not a key of VALID_ACTIONS raises the
\* RuntimeError that says so, whatever the keyword arguments, before any request.
C3_InvalidAction ==
    (Ended("step") /\ loc.action # None /\ loc.action \notin DOMAIN VALID_ACTIONS) =>
        /\ ret.status = "raise"
        /\ ret.error.type = "RuntimeError"
        /\ ret.error.msg[2] = "not a valid action. Valid actions are"
        /\ log = <<>>
C3_Witness ==
    /\ Ended("step") /\ loc.action = "move_forward"
    /\ loc.action_kwargs = {"distance", "angle"}
    /\ ret.error.type = "RuntimeError"

\* C4: step with an action of VALID_ACTIONS and another number of keyword
\* arguments than it requires raises RuntimeError.
C4_ArgumentCountMismatch ==
    (/\ Ended("step")
     /\ loc.action \in DOMAIN VALID_ACTIONS
     /\ Cardinality(loc.action_kwargs) # Len(VALID_ACTIONS[loc.action])) =>
        /\ ret.status = "raise"
        /\ ret.error.type = "RuntimeError"

\* C5: step with an action of VALID_ACTIONS and the required number of
\* keyword arguments raises the RuntimeError about invalid arguments when a
\* name is not a required one; with exactly the required names it fails no
\* validation and its first request sends the action.
C5_RightCount ==
    /\ loc.action \in DOMAIN VALID_ACTIONS
    /\ Cardinality(loc.action_kwargs) = Len(VALID_ACTIONS[loc.action])
C5_ArgumentNames ==
    /\ (Ended("step") /\ C5_RightCount
            /\ loc.action_kwargs # Range(VALID_ACTIONS[loc.action])) =>
          /\ ret.status = "raise"
          /\ ret.error.type = "RuntimeError"
          /\ ret.error.msg[1] = "Valid arguments to"
          /\ log = <<>>
    /\ ((Ended("step") \/ stack = <<"step">>) /\ C5_RightCount
            /\ loc.action_kwargs = Range(VALID_ACTIONS[loc.action])) =>
          /\ ~FailedValidation
          /\ IF pc = "step_send"
             THEN log = <<>>
             ELSE log # <<>> /\ log[1] = Request("_send", CONNECTION, loc.action)
C5_Witness ==
    /\ Ended("step") /\ loc.action = "move_distance" /\ loc.action_kwargs = {"angle"}
    /\ ret.error.type = "RuntimeError"

\* C6: when step fails its validation, that step has issued no request (a
\* step called directly leaves the log empty; under reset only reset's own
\* requests are there), and the call that failed changed neither the callback
\* registry nor the service, so the next call starts from the same state.
C6_NoRequest ==
    FailedValidation =>
        /\ ret.op = "step" => log = <<>>
        /\ \A i \in DOMAIN log : log[i].route_name \in {"is_dirty", "restart"}
C6_FailingCall ==
    /\ pc' = "idle" /\ ret'.status = "raise" /\ ret'.frame = "step"
    /\ ret'.error.type \in ValidationErrors
    /\ stable' \/ log' # log
C6_FailedValidationIssuesNothing ==
    /\ []C6_NoRequest
    /\ [][C6_FailingCall =>
            /\ connection_callbacks' = connection_callbacks
            /\ svcVars' = svcVars]_vars
C6_Witness ==
    /\ FailedValidation /\ ret.op = "step"
    /\ loc.action = "move_angle" /\ loc.action_kwargs = {"distance"}
    /\ connection_callbacks # <<>>

\* C7: with is_collided, is_finished and is_dirty false throughout and no
\* request failing, step('move_next') returns SUCCESS with one observation
\* per declared key, having sent the action, then asked is_collided, then
\* is_finished, then fetched each declared key once, in that order.
C7_MoveNextEndToEnd ==
    (/\ Ended("step") /\ loc.action = "move_next" /\ loc.action_kwargs = {}
     /\ stable /\ ~is_collided /\ ~is_finished /\ ~is_dirty
     /\ ~FailedRequest) =>
        /\ ret.status = "return"
        /\ ret.action_result = SUCCESS
        /\ DOMAIN ret.observations = Range(loc.keys)
        /\ SelectSeq(log, NotConfig) =
              <<Request("_send", CONNECTION, "move_next"),
                Request("_receive", SIMULATOR, "is_collided"),
                Request("_receive", STATUS, "is_finished")>> \o Fetches(loc.keys)

\* C8: run calls save_result once, and only once the agent's is_done was
\* true for the result of a step, and then picks no action and takes no step;
\* a run in which no request fails ends that way.
C8_RunSavesOnceWhenDone ==
    /\ run.saves <= 1
    /\ run.saves = 1 => (run.is_done /\ Ended("run") /\ ret.status = "return")
    /\ (Ended("run") /\ ~FailedRequest /\ ret.error.type # "KeyError") =>
          (run.saves = 1 /\ ret.status = "return")

\* C9: an access of the actions property asks the service anew, and with the
\* flags as they were when it asked, it returns the empty list when
\* is_collided or is_finished, and the declared list otherwise.
C9_ActionsRecomputed ==
    (Ended("actions") /\ ret.status = "return") =>
        /\ log # <<>>
        /\ log[1] = Request("_receive", SIMULATOR, "is_collided")
        /\ stable =>
              ret.actions = IF is_collided \/ is_finished THEN <<>> ELSE declared_actions
C9_Witness ==
    /\ Ended("actions") /\ ret.status = "return" /\ stable
    /\ ~is_collided /\ is_finished
    /\ ret.actions = <<>>

\* C10: a step that has fetched its observations returns, for every key of
\* the observation list, the raw value when the registry has no callback for
\* the key (no entry, or None), and the callback's value of it otherwise; a
\* key without an entry does not make it fail.
C10_Fetched ==
    /\ Ended("step")
    /\ \E i \in DOMAIN log : log[i] = Request("_receive", CONFIG, "observations")
    /\ Cardinality(DOMAIN loc.raw_os) = Len(loc.keys)
    /\ ~FailedRequest
C10_CallbacksApplied ==
    C10_Fetched =>
        /\ ret.status = "return"
        /\ DOMAIN ret.observations = Range(loc.keys)
        /\ \A k \in Range(loc.keys) :
              ret.observations[k] =
                 IF k \in DOMAIN connection_callbacks /\ connection_callbacks[k] # None
                 THEN CallCallback(connection_callbacks[k], loc.raw_os[k])
                 ELSE loc.raw_os[k]

\* C11: when the probe of start cannot reach the service, start raises
\* ConnectionError with the configured address in its message, having issued
\* the probe once and nothing else, and the registry is as it was.
C11_Probe == Request("_receive", EXPLICIT, "/")
C11_ProbeUnreachable ==
    /\ [](Ended("start") /\ answered = "unreachable" /\ Len(log) = 1 =>
            /\ log = <<C11_Probe>>
            /\ ret.status = "raise"
            /\ ret.error.type = "ConnectionError"
            /\ supervisor_address \in Range(ret.error.msg))
    /\ [][pc = "start_probe" /\ answered' = "unreachable" =>
            /\ pc' = "idle"
            /\ log' = <<C11_Probe>>
            /\ connection_callbacks' = connection_callbacks]_vars
C11_Witness ==
    /\ Ended("start") /\ answered = "unreachable" /\ log = <<C11_Probe>>
    /\ connection_callbacks # <<>>

\* C12: a call that ends because the service answered a request with a
\* failure status raises the unexpected-response error (with the status
\* code), and ConnectionError is raised only when the service was not reached.
C12_UnexpectedResponse ==
    (pc = "idle" /\ ret.status = "raise") =>
        /\ answered = "status" => ret.error.type = "_UnexpectedResponseError"
        /\ ret.error.type = "ConnectionError" => answered = "unreachable"

\* C13: after a successful probe start polls is_running; it fetches the robot
\* configuration and fills the registry only after a poll answered true; a
\* poll answered false leaves start polling (it neither returns nor raises);
\* a start that returns has issued probe, polls, robot in this order and has
\* one registry entry per connection; and if is_running is true from some
\* point on and every request succeeds, a start in progress returns.
C13_StartPcs == {"start_probe", "start_is_running", "start_robot"}
C13_Polls(n) == [i \in 1..n |-> Request("_receive", SIMULATOR, "is_running")]
C13_Populated ==
    /\ Ended("start") /\ ret.status = "return"
    /\ DOMAIN connection_callbacks = DOMAIN loc.robot
    /\ \A k \in DOMAIN loc.robot :
          connection_callbacks[k] = AttemptConnectionImports(loc.robot[k])
C13_StartPollsUntilRunning ==
    /\ [][pc = "start_probe" /\ log' # log /\ answered' = "ok" =>
            pc' = "start_is_running"]_vars
    /\ [][pc = "start_is_running" /\ pc' # pc =>
            \/ pc' = "start_robot" /\ is_running /\ answered' = "ok"
            \/ pc' = "idle" /\ answered' # "ok" /\ ret'.status = "raise"]_vars
    /\ [][pc = "start_is_running" /\ ~is_running /\ answered' = "ok" =>
            pc' = "start_is_running"]_vars
    /\ [][(pc \in {"start_probe", "start_is_running"}) =>
            UNCHANGED connection_callbacks]_vars
    /\ [](pc \in {"start_probe", "start_is_running"} =>
            \A i \in DOMAIN log : log[i].route_type # CONFIG)
    /\ [](pc = "start_robot" =>
            log = <<C11_Probe>> \o C13_Polls(Len(log) - 1) /\ Len(log) >= 2)
    /\ [](Ended("start") /\ ret.status = "return" =>
            /\ C13_Populated
            /\ Len(log) >= 3
            /\ log = <<C11_Probe>> \o C13_Polls(Len(log) - 2)
                        \o <<Request("_receive", CONFIG, "robot")>>)
    /\ (<>[]is_running /\ [](answered = "ok")) =>
            [](pc \in C13_StartPcs => <>C13_Populated)
C13_Witness ==
    /\ C13_Populated
    /\ Len(log) = 4
    /\ DOMAIN connection_callbacks # {}

\* C14: reset (alone or as the first call of run) queries is_dirty once, as
\* its first request; it issues restart once, as its second request and
\* before it enters the initial step, exactly when is_dirty was answered
\* true, and enters the initial step with no restart when it was false.
C14_IsDirty == Request("_receive", SIMULATOR, "is_dirty")
C14_Restart == Request("_receive", SIMULATOR, "restart")
C14_Count(request) == Cardinality({i \in DOMAIN log : log[i] = request})
C14_InitialStepEntered == pc = "idle" /\ ret.op \in {"reset", "run"} /\ ret.frame = "step"
C14_ResetRestartsIffDirty ==
    /\ [][pc = "reset_is_dirty" /\ log' # log =>
            /\ log' = <<C14_IsDirty>>
            /\ answered' = "ok" /\ is_dirty => pc' = "reset_restart"
            /\ answered' = "ok" /\ ~is_dirty => C14_InitialStepEntered'
            /\ answered' # "ok" => FailedRequest']_vars
    /\ [][pc = "reset_restart" /\ log' # log =>
            /\ log' = <<C14_IsDirty, C14_Restart>>
            /\ answered' = "ok" => C14_InitialStepEntered'
            /\ answered' # "ok" => FailedRequest']_vars
    /\ [](pc = "reset_restart" => log = <<C14_IsDirty>>)
    /\ [](C14_InitialStepEntered =>
            /\ log[1] = C14_IsDirty
            /\ C14_Count(C14_IsDirty) = 1
            /\ C14_Count(C14_Restart) <= 1
            /\ C14_Count(C14_Restart) = 1 => log[2] = C14_Restart
            /\ stable => (C14_Count(C14_Restart) = 1 <=> is_dirty))
C14_Witness ==
    /\ C14_InitialStepEntered /\ ret.op = "reset"
    /\ stable /\ is_dirty
    /\ log = <<C14_IsDirty, C14_Restart>>

\* C15 as stated: every step that passed validation and whose flag queries
\* were answered has queried is_collided and then is_finished, whatever the
\* flags are.
C15_IsCollided == Request("_receive", SIMULATOR, "is_collided")
C15_IsFinished == Request("_receive", STATUS, "is_finished")
C15_Last(n) == IF Len(log) >= n THEN log[Len(log) + 1 - n] ELSE NoError
C15_BothFlagsQueried ==
    pc = "step_observations" => C15_Last(2) = C15_IsCollided /\ C15_Last(1) = C15_IsFinished

\* C15: a step that passes validation queries is_collided first (after the
\* send of the action, if there is one); it queries is_finished next exactly
\* when is_collided was answered false, and goes on to the observations
\* without asking is_finished when is_collided was answered true; is_finished
\* never precedes is_collided.
C15_FlagQueries == {i \in DOMAIN log : log[i] \in {C15_IsCollided, C15_IsFinished}}
C15_CollidedThenFinished ==
    /\ [][pc = "idle" /\ pc' # "idle" /\ stack'[Len(stack')] = "step" =>
            pc' \in {"step_send", "step_is_collided"}]_vars
    /\ [][pc = "step_send" /\ log' # log /\ answered' = "ok" =>
            pc' = "step_is_collided"]_vars
    /\ [][pc = "step_is_collided" /\ log' # log =>
            /\ log' = Append(log, C15_IsCollided)
            /\ answered' = "ok" /\ is_collided => pc' = "step_observations"
            /\ answered' = "ok" /\ ~is_collided => pc' = "step_is_finished"]_vars
    /\ [][pc = "step_is_finished" /\ log' # log =>
            /\ log' = Append(log, C15_IsFinished)
            /\ answered' = "ok" => pc' = "step_observations"]_vars
    /\ [](pc \in {"step_send", "step_is_collided"} => C15_FlagQueries = {})
    /\ [](pc = "step_is_finished" =>
            C15_Last(1) = C15_IsCollided /\ Cardinality(C15_FlagQueries) = 1)
    /\ [](pc = "step_observations" =>
            \/ C15_Last(1) = C15_IsCollided /\ Cardinality(C15_FlagQueries) = 1
            \/ /\ C15_Last(2) = C15_IsCollided /\ C15_Last(1) = C15_IsFinished
               /\ Cardinality(C15_FlagQueries) = 2)
    /\ [](pc = "step_observations" /\ stable =>
            (C15_Last(1) = C15_IsFinished <=> ~is_collided))
C15_Witness ==
    /\ pc = "step_observations" /\ stable /\ ~is_collided
    /\ log = <<Request("_send", CONNECTION, "move_next"), C15_IsCollided, C15_IsFinished>>

\* C16: whatever the derived result, a step whose requests all succeeded has
\* read the observation list after the flag queries, then fetched the keys
\* one request each in the order of the list, and returns the result with a
\* map that has exactly one entry per key of the list.
C16_List == Request("_receive", CONFIG, "observations")
C16_ListAt == CHOOSE i \in DOMAIN log : log[i] = C16_List
C16_FetchesInOrder ==
    /\ C16_ListAt > 1
    /\ log[C16_ListAt - 1] \in {C15_IsCollided, C15_IsFinished}
    /\ SubSeq(log, C16_ListAt + 1, Len(log)) = Fetches(loc.keys)
C16_SnapshotReturned ==
    (Ended("step") /\ answered = "ok" /\ C16_List \in Range(log)) =>
        /\ C16_FetchesInOrder
        /\ ret.status = "return"
        /\ ret.action_result = loc.action_result
        /\ DOMAIN ret.observations = Range(loc.keys)

\* C17: no request is retried. A request that fails ends the outermost call
\* at once: the failed request is the last one of the log, the error reaches
\* the caller of the outermost call, there is no (observations, result) pair
\* or action list, and the agent is not called (pick_action, save_result)
\* in that step or later in the call. A failed is_running poll ends start
\* in the same way.
C17_FailureIsFatal ==
    /\ [](answered # "ok" =>
            /\ FailedRequest
            /\ ret.observations = <<>> /\ ret.actions = <<>>
            /\ Len(log) >= 1)
    /\ [][log' # log /\ answered' # "ok" =>
            /\ Len(log') = Len(log) + 1
            /\ SubSeq(log', 1, Len(log)) = log
            /\ pc' = "idle" /\ stack' = <<>>
            /\ ret'.op = stack[1]
            /\ run'.picks = run.picks /\ run'.saves = run.saves]_vars
    /\ [][pc = "idle" /\ log' # log => log' = <<>> /\ answered' = "ok"]_vars
    /\ [][pc = "start_is_running" /\ log' # log /\ answered' # "ok" =>
            Ended("start")' /\ UNCHANGED connection_callbacks]_vars
C17_Witness ==
    /\ Ended("start") /\ FailedRequest /\ answered = "unreachable"
    /\ log = <<C11_Probe>> \o C13_Polls(2)

\* C18: the registry changes only in the step of start that has read the
\* robot configuration: the calls and every request of step, reset, run, the
\* actions property and the observations property leave it as it is, and so
\* does any change of the service; once start has returned it keeps its
\* contents until another start reads a configuration.
C18_OnlyStartWrites ==
    /\ [][connection_callbacks' # connection_callbacks =>
            /\ pc = "start_robot" /\ stack = <<"start">>
            /\ answered' = "ok"
            /\ C13_Populated']_vars
    /\ [][pc # "start_robot" => UNCHANGED connection_callbacks]_vars
    /\ [][stack' # <<>> /\ stack'[1] # "start" => UNCHANGED connection_callbacks]_vars
C18_Witness ==
    /\ Ended("step") /\ ret.status = "return"
    /\ ~stable
    /\ DOMAIN connection_callbacks = Keys
    /\ DOMAIN ret.observations = Keys

\* C19: a run in which every request succeeded and the agent's is_done is
\* true exactly for FINISHED and COLLISION ends normally: it has gone through
\* the reset and the steps to a terminal result, returns, and has called
\* save_result (once) when it returns.
C19_Terminal == {FINISHED, COLLISION}
C19_RunTerminatesNormally ==
    (/\ Ended("run")
     /\ answered = "ok"
     /\ run.is_done <=> run.action_result \in C19_Terminal) =>
        /\ ret.status = "return"
        /\ run.action_result \in C19_Terminal
        /\ run.saves = 1

====
